---- MODULE Spec2Model ----
(***************************************************************************)
(* Model of the Foursquare Places tool layer (src/src/places.py): the      *)
(* gateway _request, the formatter _format_place and the five tools        *)
(* search_near, search_near_point, place_snap, place_details and           *)
(* get_location, each invocation suspended once, at its network await.     *)
(***************************************************************************)
EXTENDS Integers, Sequences, FiniteSets, TLC

(***************************************************************************)
(* Python / JSON values.  Every value is a record tagged by t:             *)
(*   null, num (v an integer), str (v the sequence of the string's         *)
(*   pieces, <<>> the empty string), arr (v a sequence of values),         *)
(*   obj (v a function from the keys present to values), and raise (an     *)
(*   exception in flight, v its type).                                     *)
(***************************************************************************)
JNull == [t |-> "null"]
Num(n) == [t |-> "num", v |-> n]
Str(s) == [t |-> "str", v |-> IF s = "" THEN <<>> ELSE <<s>>]
EmptyStr == [t |-> "str", v |-> <<>>]
Arr(s) == [t |-> "arr", v |-> s]
EmptyArr == [t |-> "arr", v |-> <<>>]
Obj(f) == [t |-> "obj", v |-> f]
EmptyObj == [t |-> "obj", v |-> [k \in {} |-> JNull]]
Raise(e) == [t |-> "raise", v |-> e]

Raised(x) == x.t = "raise"

\* bool(x): None, 0, "", [] and {} are false.
Truthy(x) ==
    CASE x.t = "null" -> FALSE
      [] x.t = "num" -> x.v # 0
      [] x.t = "str" -> x.v # <<>>
      [] x.t = "arr" -> x.v # <<>>
      [] x.t = "obj" -> DOMAIN x.v # {}

\* d.get(k, dflt): only a dict has .get; receiver and default are evaluated
\* first, so an exception in either propagates.
Get(d, k, dflt) ==
    IF Raised(d) THEN d
    ELSE IF Raised(dflt) THEN dflt
    ELSE IF d.t # "obj" THEN Raise("AttributeError")
    ELSE IF k \in DOMAIN d.v THEN d.v[k] ELSE dflt

\* k in x, for a string k (a string's pieces are taken whole).
Contains(k, x) ==
    IF Raised(x) THEN x
    ELSE CASE x.t = "obj" -> [t |-> "bool", v |-> k \in DOMAIN x.v]
           [] x.t = "arr" -> [t |-> "bool",
                              v |-> \E n \in 1..Len(x.v) :
                                       x.v[n].t = "str" /\ x.v[n].v = <<k>>]
           [] x.t = "str" -> [t |-> "bool", v |-> \E n \in 1..Len(x.v) : x.v[n] = k]
           [] OTHER -> Raise("TypeError")

RECURSIVE SetToSeq(_)
SetToSeq(S) ==
    IF S = {} THEN <<>>
    ELSE LET x == CHOOSE y \in S : TRUE IN <<x>> \o SetToSeq(S \ {x})

\* The elements a for-loop over x visits: a list's entries, a dict's keys,
\* a string's pieces (each a string); None and numbers are not iterable.
Iter(x) ==
    IF Raised(x) THEN x
    ELSE CASE x.t = "arr" -> x
           [] x.t = "obj" -> Arr([n \in 1..Cardinality(DOMAIN x.v) |->
                                     Str(SetToSeq(DOMAIN x.v)[n])])
           [] x.t = "str" -> Arr([n \in 1..Len(x.v) |-> Str(x.v[n])])
           [] OTHER -> Raise("TypeError")

RECURSIVE StrLen(_)
StrLen(pieces) ==
    IF pieces = <<>> THEN 0 ELSE Len(Head(pieces)) + StrLen(Tail(pieces))

\* len(x)
PyLen(x) ==
    IF Raised(x) THEN x
    ELSE CASE x.t = "arr" -> Num(Len(x.v))
           [] x.t = "obj" -> Num(Cardinality(DOMAIN x.v))
           [] x.t = "str" -> Num(StrLen(x.v))
           [] OTHER -> Raise("TypeError")

\* x[:n]
Slice(x, n) ==
    IF Raised(x) THEN x
    ELSE CASE x.t = "arr" ->
                Arr(SubSeq(x.v, 1, IF Len(x.v) < n THEN Len(x.v) ELSE n))
           [] x.t = "str" ->
                [t |-> "str", v |-> SubSeq(x.v, 1, IF Len(x.v) < n THEN Len(x.v) ELSE n)]
           [] OTHER -> Raise("TypeError")

\* [c.get(k) for c in xs]
GetEach(xs, k) ==
    LET it == Iter(xs) IN
    IF Raised(it) THEN it
    ELSE LET got == [n \in 1..Len(it.v) |-> Get(it.v[n], k, JNull)] IN
         IF \E n \in 1..Len(got) : Raised(got[n])
         THEN got[CHOOSE n \in 1..Len(got) :
                     Raised(got[n]) /\ \A m \in 1..(n-1) : ~Raised(got[m])]
         ELSE Arr(got)

\* A dict display {k: v, ...}: the first exception among its values escapes.
Dict(keys, f) ==
    IF \E n \in 1..Len(keys) : Raised(f[keys[n]])
    THEN f[keys[CHOOSE n \in 1..Len(keys) :
                   Raised(f[keys[n]]) /\ \A m \in 1..(n-1) : ~Raised(f[keys[m]])]]
    ELSE Obj(f)

PyMax(a, b) == IF b > a THEN b ELSE a
PyMin(a, b) == IF b < a THEN b ELSE a

(***************************************************************************)
(* _format_place                                                           *)
(***************************************************************************)
\* x if c else None, where c is the outcome of a membership test
IfElseNone(c, x) ==
    IF Raised(c) THEN c ELSE IF c.v THEN x ELSE JNull

SummaryKeys ==
    <<"fsq_id", "name", "address", "locality", "region", "country", "distance",
      "categories", "latitude", "longitude">>

_format_place(place) ==
    LET location == Get(place, "location", EmptyObj)
        categories == Get(place, "categories", EmptyArr)
        main == Get(Get(place, "geocodes", EmptyObj), "main", EmptyObj)
    IN  IF Raised(location) THEN location
        ELSE IF Raised(categories) THEN categories
        ELSE Dict(SummaryKeys,
               [fsq_id |-> Get(place, "fsq_id", JNull),
                name |-> Get(place, "name", JNull),
                address |-> Get(location, "formatted_address",
                                Get(location, "address", JNull)),
                locality |-> Get(location, "locality", JNull),
                region |-> Get(location, "region", JNull),
                country |-> Get(location, "country", JNull),
                distance |-> Get(place, "distance", JNull),
                categories |-> GetEach(categories, "name"),
                latitude |-> IfElseNone(Contains("latitude", main),
                                        Get(location, "latitude", JNull)),
                longitude |-> IfElseNone(Contains("longitude", main),
                                         Get(location, "longitude", JNull))])

\* [_format_place(p) for p in places]
FormatEach(places) ==
    LET it == Iter(places) IN
    IF Raised(it) THEN it
    ELSE LET got == [n \in 1..Len(it.v) |-> _format_place(it.v[n])] IN
         IF \E n \in 1..Len(got) : Raised(got[n])
         THEN got[CHOOSE n \in 1..Len(got) :
                     Raised(got[n]) /\ \A m \in 1..(n-1) : ~Raised(got[m])]
         ELSE Arr(got)

(***************************************************************************)
(* The result envelope and what the network answers.                       *)
(***************************************************************************)
FOURSQUARE_BASE_URL == "https://api.foursquare.com/v3"

\* PlacesResult(success=..., data=..., error=...); data and error default to None.
PlacesResult(success, data, error) ==
    [t |-> "envelope", success |-> success, data |-> data, error |-> error]

\* What the awaited client.get(...) does: it raises (a transport error, a
\* timeout), or returns a response with a status code and a body, which is
\* JSON or not.
NotJson == [t |-> "notjson"]
HttpResponse(code, body) == [kind |-> "response", code |-> code, body |-> body, msg |-> <<>>]
HttpError(msg) == [kind |-> "error", code |-> 0, body |-> JNull, msg |-> msg]

\* response.raise_for_status() raises on every status outside 2xx.
IsSuccess(code) == 200 <= code /\ code <= 299

\* str(e) of the HTTPStatusError raise_for_status raises.
StatusErrorText(code) ==
    <<IF 400 <= code /\ code <= 499 THEN "Client error '" ELSE "Server error '",
      ToString(code), "' for url">>

\* str(e) of the exception response.json() raises on a body that is not JSON.
DecodeErrorText == <<"Expecting value: line 1 column 1 (char 0)">>

\* str(e) of an exception raised by the code itself.
ExcText(r) == <<r.v>>

\* str(x) as an f-string field renders it.
PyStr(x) ==
    CASE x.t = "num" -> <<ToString(x.v)>>
      [] x.t = "str" -> x.v

(***************************************************************************)
(* _request, from its await on: the envelope it returns for an outcome.    *)
(***************************************************************************)
KeyUnsetError == Str("FOURSQUARE_API_KEY environment variable not set")
RateLimitedError == Str("Rate limited. Please try again later.")
UnauthorizedError == Str("Unauthorized. Check your API key.")

\* The key check left out.
KeyNeverUnset(apiKey) == FALSE

\* not FOURSQUARE_API_KEY
KeyUnset(apiKey) == apiKey = ""

\* raise_for_status() called before the 429 and 401 tests.
RequestRaisingFirst(o) ==
    IF o.kind = "error" THEN PlacesResult(FALSE, JNull, [t |-> "str", v |-> o.msg])
    ELSE IF ~IsSuccess(o.code)
         THEN PlacesResult(FALSE, JNull, [t |-> "str", v |-> StatusErrorText(o.code)])
    ELSE IF o.body.t = "notjson"
         THEN PlacesResult(FALSE, JNull, [t |-> "str", v |-> DecodeErrorText])
    ELSE PlacesResult(TRUE, o.body, JNull)

_request(o) ==
    IF o.kind = "error" THEN PlacesResult(FALSE, JNull, [t |-> "str", v |-> o.msg])
    ELSE IF o.code = 429 THEN PlacesResult(FALSE, JNull, RateLimitedError)
    ELSE IF o.code = 401 THEN PlacesResult(FALSE, JNull, UnauthorizedError)
    ELSE IF ~IsSuccess(o.code)
         THEN PlacesResult(FALSE, JNull, [t |-> "str", v |-> StatusErrorText(o.code)])
    ELSE IF o.body.t = "notjson"
         THEN PlacesResult(FALSE, JNull, [t |-> "str", v |-> DecodeErrorText])
    ELSE PlacesResult(TRUE, o.body, JNull)

(***************************************************************************)
(* The tools: the request each builds, and what each makes of the          *)
(* gateway's envelope.  A tool returns an envelope or lets an exception    *)
(* escape (a raise value).                                                 *)
(***************************************************************************)
Ops == {"search_near", "search_near_point", "place_snap", "place_details", "get_location"}
PlacesOps == Ops \ {"get_location"}

DefaultFields == "name,location,categories,description,tel,website,hours,rating,price,photos,tips"

search_near_limit(limit) == PyMax(1, PyMin(limit, 50))
search_near_point_limit(limit) == PyMax(1, PyMin(limit, 50))
search_near_point_radius(radius) == PyMax(1, PyMin(radius, 100000))
\* The search tools' upper bound pasted into place_snap.
PlaceSnapLimit50(limit) == PyMax(1, PyMin(limit, 50))
place_snap_limit(limit) == PyMax(1, PyMin(limit, 10))

\* The request a tool issues for arguments a: method, url, query parameters, timeout.
Request(op, a) ==
    CASE op = "search_near" ->
           [method |-> "GET", url |-> <<FOURSQUARE_BASE_URL, "/places/search">>,
            params |-> [query |-> a.what, near |-> a.where,
                        limit |-> search_near_limit(a.limit)],
            timeout |-> 30]
      [] op = "search_near_point" ->
           [method |-> "GET", url |-> <<FOURSQUARE_BASE_URL, "/places/search">>,
            params |-> [query |-> a.what, ll |-> a.ll,
                        radius |-> search_near_point_radius(a.radius),
                        limit |-> search_near_point_limit(a.limit)],
            timeout |-> 30]
      [] op = "place_snap" ->
           [method |-> "GET", url |-> <<FOURSQUARE_BASE_URL, "/places/nearby">>,
            params |-> [ll |-> a.ll, limit |-> place_snap_limit(a.limit)],
            timeout |-> 30]
      [] op = "place_details" ->
           [method |-> "GET", url |-> <<FOURSQUARE_BASE_URL, "/places/", a.fsq_id>>,
            params |-> [fields |-> IF Truthy(a.fields) THEN a.fields
                                   ELSE Str(DefaultFields)],
            timeout |-> 30]
      [] op = "get_location" ->
           [method |-> "GET", url |-> <<"https://ipapi.co/json/">>,
            params |-> [none |-> TRUE], timeout |-> 5]

\* A tool's tail: the reshaped envelope, or the exception the reshaping raised.
Reshape(result, keys, f) ==
    LET d == Dict(keys, f) IN
    IF Raised(d) THEN d ELSE PlacesResult(result.success, d, result.error)

search_near(a, result) ==
    IF result.success /\ Truthy(result.data)
    THEN LET places == Get(result.data, "results", EmptyArr) IN
         Reshape(result, <<"query", "location", "count", "places">>,
                 [query |-> Str(a.what), location |-> Str(a.where),
                  count |-> PyLen(places), places |-> FormatEach(places)])
    ELSE result

search_near_point(a, result) ==
    IF result.success /\ Truthy(result.data)
    THEN LET places == Get(result.data, "results", EmptyArr) IN
         Reshape(result, <<"query", "coordinates", "radius_meters", "count", "places">>,
                 [query |-> Str(a.what), coordinates |-> Str(a.ll),
                  radius_meters |-> Num(search_near_point_radius(a.radius)),
                  count |-> PyLen(places), places |-> FormatEach(places)])
    ELSE result

place_snap(a, result) ==
    IF result.success /\ Truthy(result.data)
    THEN LET places == Get(result.data, "results", EmptyArr) IN
         Reshape(result, <<"coordinates", "count", "places">>,
                 [coordinates |-> Str(a.ll),
                  count |-> PyLen(places), places |-> FormatEach(places)])
    ELSE result

DetailKeys ==
    <<"fsq_id", "name", "description", "location", "categories", "contact",
      "hours", "rating", "price", "photos", "tips">>

place_details(a, result) ==
    IF result.success /\ Truthy(result.data)
    THEN LET place == result.data IN
         Reshape(result, DetailKeys,
                 [fsq_id |-> Str(a.fsq_id),
                  name |-> Get(place, "name", JNull),
                  description |-> Get(place, "description", JNull),
                  location |-> Get(place, "location", JNull),
                  categories |-> GetEach(Get(place, "categories", EmptyArr), "name"),
                  contact |-> Dict(<<"phone", "website">>,
                                   [phone |-> Get(place, "tel", JNull),
                                    website |-> Get(place, "website", JNull)]),
                  hours |-> Get(place, "hours", JNull),
                  rating |-> Get(place, "rating", JNull),
                  price |-> Get(place, "price", JNull),
                  photos |-> Get(Get(place, "photos", EmptyObj), "groups", EmptyArr),
                  tips |-> GetEach(Slice(Get(place, "tips", EmptyArr), 5), "text")])
    ELSE result

LookupFailed(text) ==
    PlacesResult(FALSE, JNull, [t |-> "str", v |-> <<"Location lookup failed: ">> \o text])

NoLocationError == Str("Could not determine location from IP.")

\* lat and lng
BothTruthy(lat, lng) == Truthy(lat) /\ Truthy(lng)

get_location(o) ==
    IF o.kind = "error" THEN LookupFailed(o.msg)
    ELSE IF ~IsSuccess(o.code) THEN LookupFailed(StatusErrorText(o.code))
    ELSE IF o.body.t = "notjson" THEN LookupFailed(DecodeErrorText)
    ELSE LET data == o.body
             lat == Get(data, "latitude", JNull)
             lng == Get(data, "longitude", JNull)
         IN  IF Raised(lat) THEN LookupFailed(ExcText(lat))
             ELSE IF BothTruthy(lat, lng)
             THEN PlacesResult(TRUE,
                    Obj([coordinates |-> [t |-> "str",
                                          v |-> PyStr(lat) \o <<",">> \o PyStr(lng)],
                         city |-> Get(data, "city", JNull),
                         region |-> Get(data, "region", JNull),
                         country |-> Get(data, "country_name", JNull),
                         note |-> Str("This is an approximation based on IP address.")]),
                    JNull)
             ELSE PlacesResult(FALSE, JNull, NoLocationError)

\* What a Places tool makes of the envelope _request handed it.
ToolTail(op, a, result) ==
    CASE op = "search_near" -> search_near(a, result)
      [] op = "search_near_point" -> search_near_point(a, result)
      [] op = "place_snap" -> place_snap(a, result)
      [] op = "place_details" -> place_details(a, result)

\* What the invocation of op ends with once the network answered o.
ToolReturn(op, a, o) ==
    IF op = "get_location" THEN get_location(o) ELSE ToolTail(op, a, _request(o))

(***************************************************************************)
(* Bounds and the inputs drawn within them.                                *)
(***************************************************************************)
\* How many invocations run concurrently.
NumInvocations == 2
\* How far below and above each clamp bound the numeric arguments range.
Slack == 1
\* The longest list of well-formed results a search response carries.
MaxResults == 2

Invocations == 1..NumInvocations

Around(b) == (b - Slack)..(b + Slack)
LimitInputs == Around(1) \cup Around(10) \cup Around(50) \cup {-7, 5, 999}
RadiusInputs == Around(1) \cup Around(100000) \cup {-5, 1000}

NoArgs == [none |-> TRUE]

Args(o) ==
    CASE o = "search_near" ->
           {[where |-> "Times Square, New York", what |-> "pizza", limit |-> l] :
               l \in LimitInputs}
      [] o = "search_near_point" ->
           {[what |-> "coffee", ll |-> "40.758,-73.9855", radius |-> r, limit |-> l] :
               r \in RadiusInputs, l \in LimitInputs}
      [] o = "place_snap" ->
           {[ll |-> "40.758,-73.9855", limit |-> l] : l \in LimitInputs}
      [] o = "place_details" ->
           {[fsq_id |-> "4b5f2c8ef964a520", fields |-> f] :
               f \in {JNull, EmptyStr, Str("name,rating")}}
      [] o = "get_location" -> {NoArgs}

\* The arguments of the sample client (src/src/client.py), and the defaults.
DefaultArgs(o) ==
    CASE o = "search_near" ->
           [where |-> "Times Square, New York", what |-> "pizza", limit |-> 3]
      [] o = "search_near_point" ->
           [what |-> "coffee", ll |-> "40.758,-73.9855", radius |-> 500, limit |-> 3]
      [] o = "place_snap" -> [ll |-> "40.758,-73.9855", limit |-> 2]
      [] o = "place_details" -> [fsq_id |-> "4b5f2c8ef964a520", fields |-> JNull]
      [] o = "get_location" -> NoArgs

\* Raw place records, as the search endpoints list them.
Pizzeria ==
    Obj([fsq_id |-> Str("4b5f2c8ef964a520"), name |-> Str("Joe's Pizza"),
         location |-> Obj([formatted_address |-> Str("1435 Broadway, New York"),
                           address |-> Str("1435 Broadway"),
                           locality |-> Str("New York"), region |-> Str("NY"),
                           country |-> Str("US")]),
         distance |-> Num(120),
         categories |-> Arr(<<Obj([id |-> Num(13064), name |-> Str("Pizzeria")])>>),
         geocodes |-> Obj([main |-> Obj([latitude |-> Num(40), longitude |-> Num(-74)])])])
\* A record whose location carries coordinates of its own.
Cafe ==
    Obj([fsq_id |-> Str("5a1b"), name |-> Str("Cafe"),
         location |-> Obj([address |-> Str("2 Main St"),
                           latitude |-> Num(41), longitude |-> Num(-73)]),
         categories |-> EmptyArr,
         geocodes |-> Obj([main |-> Obj([latitude |-> Num(42), longitude |-> Num(-72)])])])
NoGeocodes ==
    Obj([fsq_id |-> Str("6c2d"), name |-> Str("Gym"),
         location |-> Obj([latitude |-> Num(43), longitude |-> Num(-71)])])
GeocodesNoMain ==
    Obj([fsq_id |-> Str("7d3e"),
         geocodes |-> Obj([roof |-> Obj([latitude |-> Num(44), longitude |-> Num(-70)])])])
WellFormedPlaces == {Pizzeria, Cafe, NoGeocodes, GeocodesNoMain}
\* The records the longer result lists are made of.
ListedPlaces == {Pizzeria, Cafe}

MalformedPlaces ==
    {Obj([name |-> Str("a"), location |-> JNull]),
     Obj([name |-> Str("b"), geocodes |-> JNull]),
     Obj([name |-> Str("c"), geocodes |-> Obj([main |-> JNull])]),
     Obj([name |-> Str("d"), categories |-> JNull]),
     Obj([name |-> Str("e"), categories |-> Arr(<<JNull>>)]),
     Obj([name |-> Str("f"), location |-> Str("1 Main St")]),
     JNull, Str("g")}

UpTo(S, n) == UNION {[1..k -> S] : k \in 0..n}

SearchBodies ==
    {Obj([results |-> Arr(s), context |-> EmptyObj]) : s \in UpTo(ListedPlaces, MaxResults)}
    \cup {Obj([results |-> Arr(s)]) : s \in UpTo(WellFormedPlaces, 1)}
    \cup {Obj([results |-> Arr(<<p>>)]) : p \in MalformedPlaces}
    \cup {Obj([results |-> JNull]), Obj([results |-> Str("none")]),
          Obj([results |-> Obj([a |-> Pizzeria])]),
          Obj([context |-> EmptyObj]),
          JNull, EmptyObj, EmptyArr, Arr(<<Pizzeria>>), Num(0), Str("ok")}

Tip(n) == Obj([text |-> Str("tip"), id |-> Num(n)])
Detail ==
    [name |-> Str("Joe's Pizza"), description |-> Str("Slices"),
     location |-> Obj([address |-> Str("1435 Broadway")]),
     categories |-> Arr(<<Obj([name |-> Str("Pizzeria")])>>),
     tel |-> Str("212"), website |-> Str("https://joes"), rating |-> Num(9),
     price |-> Num(1), hours |-> Obj([open_now |-> Num(1)]),
     photos |-> Obj([groups |-> Arr(<<Str("venue")>>)]),
     tips |-> Arr(<<Tip(1), Tip(2)>>)]
DetailBodies ==
    {Obj(Detail), Obj([name |-> Str("Joe's Pizza")]),
     Obj([Detail EXCEPT !.tips = Arr(<<Tip(1), Tip(2), Tip(3), Tip(4), Tip(5), Tip(6)>>)]),
     Obj([Detail EXCEPT !.categories = JNull]),
     Obj([Detail EXCEPT !.photos = JNull]),
     Obj([Detail EXCEPT !.photos = EmptyArr]),
     Obj([Detail EXCEPT !.tips = JNull]),
     Obj([Detail EXCEPT !.tips = Obj([count |-> Num(0)])]),
     Obj([Detail EXCEPT !.tips = Arr(<<Str("great")>>)]),
     JNull, EmptyObj, EmptyArr, Arr(<<Obj(Detail)>>)}

\* A key present with value x, or no key at all.
Absent == [t |-> "absent"]
WithKey(f, k, x) == IF x.t = "absent" THEN f ELSE (k :> x) @@ f
GeoBase == [city |-> Str("Paris"), region |-> Str("IDF"), country_name |-> Str("France")]
GeoBodies ==
    {Obj(WithKey(WithKey(GeoBase, "latitude", lat), "longitude", lng)) :
        lat \in {Absent, JNull, Num(0), Num(48), Str("48.85")},
        lng \in {Absent, JNull, Num(0), Num(2)}}
    \cup {Obj([latitude |-> Num(-33), longitude |-> Num(151)]),
          JNull, EmptyObj, EmptyArr, Str("rate limited")}

Bodies(o) ==
    CASE o \in {"search_near", "search_near_point", "place_snap"} -> SearchBodies
      [] o = "place_details" -> DetailBodies
      [] o = "get_location" -> GeoBodies
      [] OTHER -> {}

\* A refused connection, and a timeout (whose str() is empty).
TransportErrors == {HttpError(<<"All connection attempts failed">>), HttpError(<<>>)}
ErrorStatuses == {401, 404, 429, 500}

Outcomes(o) ==
    IF o \notin Ops THEN {}
    ELSE TransportErrors
         \cup {HttpResponse(c, NotJson) : c \in ErrorStatuses}
         \cup {HttpResponse(200, b) : b \in Bodies(o) \cup {NotJson}}

\* The tools run concurrently: one per gateway caller shape (a search, the
\* detail lookup) and the geolocation tool, which holds a client of its own.
ConcOps == {"search_near", "place_details", "get_location"}

\* One outcome for each way out of the client scope (a transport error and a
\* timeout both leave it by the exception the awaited request raises).
GoodBody(o) ==
    CASE o \in {"search_near", "search_near_point", "place_snap"} ->
           Obj([results |-> Arr(<<Pizzeria>>)])
      [] o = "place_details" -> Obj(Detail)
      [] o = "get_location" -> Obj([latitude |-> Num(-33), longitude |-> Num(151)])
ExitPaths(o) ==
    IF o \notin Ops THEN {}
    ELSE {HttpError(<<>>),
          HttpResponse(401, NotJson), HttpResponse(429, NotJson),
          HttpResponse(500, NotJson), HttpResponse(200, NotJson),
          HttpResponse(200, GoodBody(o))}

(***************************************************************************)
(* State: the module's API key, and per invocation its position, tool,     *)
(* arguments, the requests it has issued, the client it holds, how many    *)
(* clients it has opened, the network's answer and what it returned.       *)
(***************************************************************************)
VARIABLES FOURSQUARE_API_KEY, pc, op, args, sent, client, opened, open, resp, result
vars == <<FOURSQUARE_API_KEY, pc, op, args, sent, client, opened, open, resp, result>>

NoResp == [kind |-> "none"]
NoResult == [t |-> "none"]

Init ==
    /\ FOURSQUARE_API_KEY \in {"", "fsq3-test-key"}
    /\ pc = [i \in Invocations |-> "idle"]
    /\ op = [i \in Invocations |-> ""]
    /\ args = [i \in Invocations |-> NoArgs]
    /\ sent = [i \in Invocations |-> <<>>]
    /\ client = [i \in Invocations |-> 0]
    /\ opened = [i \in Invocations |-> 0]
    /\ open = {}
    /\ resp = [i \in Invocations |-> NoResp]
    /\ result = [i \in Invocations |-> NoResult]

\* One module-level client shared by every invocation.
SharedClient(cs) == 1

\* httpx.AsyncClient(): a client no one else holds.
NewClient(cs) == CHOOSE c \in Invocations : c \notin cs

Finished(r) == IF Raised(r) THEN "raised" ELSE "done"

\* Invocation i of tool o with arguments a, up to its await: a Places tool
\* without a key returns at once; otherwise the client is opened and the
\* request issued.
Call(i, o, a) ==
    /\ pc[i] = "idle"
    /\ op' = [op EXCEPT ![i] = o]
    /\ args' = [args EXCEPT ![i] = a]
    /\ IF o \in PlacesOps /\ KeyUnset(FOURSQUARE_API_KEY)
       THEN LET r == ToolTail(o, a, PlacesResult(FALSE, JNull, KeyUnsetError)) IN
            /\ result' = [result EXCEPT ![i] = r]
            /\ pc' = [pc EXCEPT ![i] = Finished(r)]
            /\ UNCHANGED <<sent, client, opened, open>>
       ELSE LET c == NewClient(open) IN
            /\ client' = [client EXCEPT ![i] = c]
            /\ open' = open \cup {c}
            /\ opened' = [opened EXCEPT ![i] = @ + 1]
            /\ sent' = [sent EXCEPT ![i] = Append(@, Request(o, a))]
            /\ pc' = [pc EXCEPT ![i] = "await"]
            /\ UNCHANGED result
    /\ UNCHANGED <<FOURSQUARE_API_KEY, resp>>

\* A 429 answered by issuing the request again.
RespondRetrying(i, o) ==
    /\ pc[i] = "await"
    /\ IF o.kind = "response" /\ o.code = 429
       THEN /\ sent' = [sent EXCEPT ![i] = Append(@, @[1])]
            /\ UNCHANGED <<pc, resp>>
       ELSE /\ resp' = [resp EXCEPT ![i] = o]
            /\ pc' = [pc EXCEPT ![i] = "closing"]
            /\ UNCHANGED sent
    /\ UNCHANGED <<FOURSQUARE_API_KEY, op, args, client, opened, open, result>>

\* The awaited request of invocation i ends with outcome o.
Respond(i, o) ==
    /\ pc[i] = "await"
    /\ resp' = [resp EXCEPT ![i] = o]
    /\ pc' = [pc EXCEPT ![i] = "closing"]
    /\ UNCHANGED <<FOURSQUARE_API_KEY, op, args, sent, client, opened, open, result>>

\* The client scope of invocation i exits (on a return or on an exception),
\* and the tool returns.
Close(i) ==
    /\ pc[i] = "closing"
    /\ open' = open \ {client[i]}
    /\ client' = [client EXCEPT ![i] = 0]
    /\ LET r == ToolReturn(op[i], args[i], resp[i]) IN
       /\ result' = [result EXCEPT ![i] = r]
       /\ pc' = [pc EXCEPT ![i] = Finished(r)]
    /\ UNCHANGED <<FOURSQUARE_API_KEY, op, args, sent, opened, resp>>

\* The host has taken invocation i's outcome; the slot is free for the next call.
Return(i) ==
    /\ pc[i] \in {"done", "raised"}
    /\ pc' = [pc EXCEPT ![i] = "idle"]
    /\ op' = [op EXCEPT ![i] = ""]
    /\ args' = [args EXCEPT ![i] = NoArgs]
    /\ sent' = [sent EXCEPT ![i] = <<>>]
    /\ opened' = [opened EXCEPT ![i] = 0]
    /\ resp' = [resp EXCEPT ![i] = NoResp]
    /\ result' = [result EXCEPT ![i] = NoResult]
    /\ UNCHANGED <<FOURSQUARE_API_KEY, client, open>>

\* One invocation at a time, over every argument and every outcome.
Next ==
    \/ \E o \in Ops : \E a \in Args(o) : Call(1, o, a)
    \/ \E o \in Outcomes(op[1]) : Respond(1, o)
    \/ Close(1)
    \/ Return(1)

Spec == Init /\ [][Next]_vars

\* Concurrent invocations, interleaved at their awaits.
ConcNext ==
    \E i \in Invocations :
        \/ \E o \in ConcOps : Call(i, o, DefaultArgs(o))
        \/ \E o \in ExitPaths(op[i]) : Respond(i, o)
        \/ Close(i)
        \/ Return(i)

ConcSpec == Init /\ [][ConcNext]_vars

(***************************************************************************)
(* Properties.                                                             *)
(***************************************************************************)
Returned(i) == pc[i] \in {"done", "raised"}
Got(i, code) == Returned(i) /\ resp[i].kind = "response" /\ resp[i].code = code
GotJson(i) == Got(i, 200) /\ resp[i].body.t # "notjson"
Failure(r) == r.t = "envelope" /\ ~r.success /\ r.data.t = "null" /\ r.error.t = "str"
\* min(max(x, lo), hi)
Clamped(x, lo, hi) == IF x < lo THEN lo ELSE IF x > hi THEN hi ELSE x

\* C1: with the API key unset, an invoked Places tool has returned the
\* failure envelope "FOURSQUARE_API_KEY environment variable not set" with no
\* request issued and no client opened.
C1_KeyUnsetNoNetwork ==
    \A i \in Invocations :
        (FOURSQUARE_API_KEY = "" /\ op[i] \in PlacesOps) =>
            /\ pc[i] = "done"
            /\ result[i] = PlacesResult(FALSE, JNull,
                              Str("FOURSQUARE_API_KEY environment variable not set"))
            /\ sent[i] = <<>> /\ opened[i] = 0 /\ client[i] = 0
\* C1 witness: search_near_point, called without a key, has returned its failure.
C1_Witness ==
    /\ FOURSQUARE_API_KEY = "" /\ op[1] = "search_near_point" /\ pc[1] = "done"
    /\ args[1].limit > 50 /\ ~result[1].success

\* C2: no invocation of a tool ends by a raised exception.
C2_NeverRaises == \A i \in Invocations : pc[i] # "raised"

\* C3: a returned envelope with success false has a string error and no data;
\* one with success true has data and no error.
C3_EnvelopeInvariant ==
    \A i \in Invocations :
        pc[i] = "done" =>
            /\ ~result[i].success => result[i].error.t = "str" /\ result[i].data.t = "null"
            /\ result[i].success => result[i].data.t # "null" /\ result[i].error.t = "null"

\* C4: the limit sent by search_near and search_near_point is the argument
\* clamped into [1,50], the limit sent by place_snap is clamped into [1,10], and
\* the radius sent by search_near_point, and echoed as radius_meters, is clamped
\* into [1,100000].
C4_Clamping ==
    \A i \in Invocations :
        sent[i] # <<>> =>
            /\ op[i] \in {"search_near", "search_near_point"} =>
                  sent[i][1].params.limit = Clamped(args[i].limit, 1, 50)
            /\ op[i] = "place_snap" =>
                  sent[i][1].params.limit = Clamped(args[i].limit, 1, 10)
            /\ op[i] = "search_near_point" =>
                  /\ sent[i][1].params.radius = Clamped(args[i].radius, 1, 100000)
                  /\ (/\ pc[i] = "done" /\ result[i].success
                      /\ result[i].data.t = "obj"
                      /\ "radius_meters" \in DOMAIN result[i].data.v)
                     => result[i].data.v.radius_meters
                           = Num(Clamped(args[i].radius, 1, 100000))
\* C4 witness: a limit above 50 and a radius below 1 were sent as 50 and 1,
\* and the radius echoed.
C4_Witness ==
    /\ op[1] = "search_near_point" /\ pc[1] = "done" /\ result[1].success
    /\ args[1].limit > 50 /\ args[1].radius < 1
    /\ sent[1][1].params.limit = 50
    /\ result[1].data.t = "obj" /\ "radius_meters" \in DOMAIN result[1].data.v
    /\ result[1].data.v.radius_meters = Num(1)

\* C5 as stated: on a 429 every one of the five tools returns the failure
\* envelope "Rate limited. Please try again later."
C5_RateLimitedAnyTool ==
    \A i \in Invocations :
        Got(i, 429) =>
            result[i] = PlacesResult(FALSE, JNull, Str("Rate limited. Please try again later."))
\* C5 amended: on a 429 each of the four Places tools returns the failure
\* envelope "Rate limited. Please try again later."; get_location returns a
\* failure envelope whose error is "Location lookup failed: " followed by the
\* text of the HTTP status error.
C5_RateLimitedPlacesTools ==
    \A i \in Invocations :
        Got(i, 429) =>
            /\ op[i] \in PlacesOps =>
                  result[i] = PlacesResult(FALSE, JNull,
                                 Str("Rate limited. Please try again later."))
            /\ op[i] = "get_location" =>
                  result[i] = PlacesResult(FALSE, JNull,
                                 [t |-> "str",
                                  v |-> <<"Location lookup failed: ",
                                          "Client error '", "429", "' for url">>])
\* C5 witness: place_details has returned after a 429.
C5_Witness ==
    /\ Got(1, 429) /\ op[1] = "place_details" /\ pc[1] = "done" /\ ~result[1].success

\* C6: search_near on a 2xx JSON object body whose results are a list of n
\* records (n = 0 when the key is absent) returns success with count = n, the
\* where and what arguments as location and query, and the n summaries in
\* upstream order.
C6_SearchNearCount ==
    \A i \in Invocations :
        (/\ op[i] = "search_near" /\ GotJson(i) /\ resp[i].body.t = "obj"
         /\ \/ "results" \notin DOMAIN resp[i].body.v
            \/ /\ resp[i].body.v.results.t = "arr"
               /\ \A k \in 1..Len(resp[i].body.v.results.v) :
                     resp[i].body.v.results.v[k] \in WellFormedPlaces)
        => LET raw == IF "results" \in DOMAIN resp[i].body.v
                      THEN resp[i].body.v.results.v ELSE <<>>
               d == result[i].data
           IN  /\ pc[i] = "done" /\ result[i].success
               /\ d.t = "obj" /\ {"count", "location", "query", "places"} \subseteq DOMAIN d.v
               /\ d.v.count = Num(Len(raw))
               /\ d.v.location = Str(args[i].where)
               /\ d.v.query = Str(args[i].what)
               /\ d.v.places.t = "arr" /\ Len(d.v.places.v) = Len(raw)
               /\ \A k \in 1..Len(raw) : d.v.places.v[k].v.fsq_id = raw[k].v.fsq_id

\* C7: get_location on a 2xx JSON object fails with "Could not determine
\* location from IP." exactly when latitude or longitude is missing or null,
\* and with both present as numbers returns the coordinates "lat,lng".
C7_LocationWhenPresent ==
    \A i \in Invocations :
        (op[i] = "get_location" /\ GotJson(i) /\ resp[i].body.t = "obj") =>
            LET b == resp[i].body.v
                absent(k) == k \notin DOMAIN b \/ b[k].t = "null"
            IN  /\ pc[i] = "done"
                /\ (result[i] = PlacesResult(FALSE, JNull,
                                   Str("Could not determine location from IP.")))
                      <=> (absent("latitude") \/ absent("longitude"))
                /\ (/\ ~absent("latitude") /\ ~absent("longitude")
                    /\ b.latitude.t = "num" /\ b.longitude.t = "num")
                   => /\ result[i].success
                      /\ result[i].data.v.coordinates =
                            [t |-> "str", v |-> <<ToString(b.latitude.v), ",",
                                                  ToString(b.longitude.v)>>]

\* C8: an invocation issues at most one request and opens at most one client,
\* and one whose request failed (a transport error, a timeout, any status
\* outside 2xx) has returned a failure envelope without issuing another.
C8_NoRetry ==
    \A i \in Invocations :
        /\ Len(sent[i]) <= 1 /\ opened[i] <= 1
        /\ (/\ pc[i] \in {"closing", "done", "raised"}
            /\ resp[i].kind \in {"error", "response"}
            /\ (resp[i].kind = "response" => resp[i].code \notin 200..299))
           => /\ Len(sent[i]) = 1
              /\ pc[i] # "raised"
              /\ pc[i] = "done" => Failure(result[i])
\* C8 witness: an invocation answered 429 has returned a failure after one request.
C8_Witness ==
    /\ Got(1, 429) /\ pc[1] = "done" /\ Len(sent[1]) = 1 /\ Failure(result[1])

\* C9: a summary's latitude and longitude are those of the raw record's
\* geocodes.main when it holds them, and both null when the record has no
\* geocodes.main.
C9_SummaryCoordinates ==
    \A i \in Invocations :
        (/\ op[i] \in {"search_near", "search_near_point", "place_snap"}
         /\ pc[i] = "done" /\ GotJson(i) /\ result[i].success
         /\ resp[i].body.t = "obj" /\ "results" \in DOMAIN resp[i].body.v
         /\ resp[i].body.v.results.t = "arr")
        => \A k \in 1..Len(resp[i].body.v.results.v) :
              LET raw == resp[i].body.v.results.v[k].v
                  sum == result[i].data.v.places.v[k].v
                  hasMain == /\ "geocodes" \in DOMAIN raw
                             /\ "main" \in DOMAIN raw.geocodes.v
              IN  /\ (hasMain /\ {"latitude", "longitude"} \subseteq DOMAIN raw.geocodes.v.main.v)
                     => /\ sum.latitude = raw.geocodes.v.main.v.latitude
                        /\ sum.longitude = raw.geocodes.v.main.v.longitude
                  /\ ~hasMain => sum.latitude = JNull /\ sum.longitude = JNull

\* C10: an invocation at the network holds one open client that no other
\* invocation holds; one that has returned, by any exit path, holds none; and
\* the open clients are exactly those of the invocations at the network.
C10_ClientScope ==
    /\ \A i \in Invocations :
          /\ pc[i] \in {"await", "closing"} =>
                /\ client[i] \in open /\ opened[i] = 1
                /\ \A j \in Invocations \ {i} : client[j] # client[i]
          /\ pc[i] \in {"idle", "done", "raised"} => client[i] = 0
    /\ open = {client[i] : i \in {j \in Invocations : pc[j] \in {"await", "closing"}}}
\* C10 witness: search_near has returned after a timeout while get_location,
\* still inside its client scope, holds the only open client.
C10_Witness ==
    /\ pc[1] = "closing" /\ pc[2] = "done" /\ resp[2].kind = "error"
    /\ op[1] = "get_location" /\ op[2] = "search_near"
    /\ open = {client[1]} /\ opened[2] = 1
====
